---- MODULE Spec2Model ----
(***************************************************************************)
(* moxie/daemon.py: one `up` coroutine (Reconciler) per Job row, driving   *)
(* the job's container through init / start / wait / reap against a        *)
(* Docker runtime and a SQL store.  Every `yield from` on the runtime or   *)
(* the store is one step of the coroutine; the process may be killed       *)
(* between any two steps and started again.                                *)
(***************************************************************************)
EXTENDS Integers, Sequences, FiniteSets, TLC

\* ------------------------------------------------------------- bounds
Jobs == {"j1", "j2"}

MaxTime == 2
MaxLaunch == 2

ExitCodes == {0, 1}

\* ------------------------------------------------- job configuration
\* Job.command is text; a text is a sequence of characters.
CmdEmpty == <<>>
CmdTrue == <<"t">>
CmdArgs == <<"s", " ", " ", "x">>

ImageName == "busybox"
ImageById == "img_1f3a"
ImageEntry == "img_9e07"

\* Job.interval, a duration in clock ticks.
Interval(j) == IF j = "j1" THEN 1 ELSE 2

\* JobEnv rows (key, value) of a job.
JobEnv(j) == IF j = "j1" THEN {<<"K", "v">>} ELSE {}

\* shlex.split on texts without quotes or escapes: the maximal runs of
\* non-blank characters, in order.
RECURSIVE SplitWords(_, _)
SplitWords(s, cur) ==
    IF s = <<>>
    THEN IF cur = <<>> THEN <<>> ELSE <<cur>>
    ELSE IF Head(s) = " "
         THEN IF cur = <<>>
              THEN SplitWords(Tail(s), <<>>)
              ELSE <<cur>> \o SplitWords(Tail(s), <<>>)
         ELSE SplitWords(Tail(s), Append(cur, Head(s)))

ShlexSplit(s) == SplitWords(s, <<>>)

\* "{key}={value}".format(**x) for each JobEnv row.
FormatEnv(j) == {<<x[1], "=", x[2]>> : x \in JobEnv(j)}

\* ------------------------------------------------------ the runtime
\* What the runtime resolves an image reference to: the image's id.
ImageId(img) == IF img = ImageName THEN ImageById ELSE img

\* The image's ENTRYPOINT and its default CMD (used when a container is
\* created with an empty Cmd), as lists of words.
ImageEntrypoint(img) == IF img = ImageEntry THEN <<<<"r">>>> ELSE <<>>

ImageCmd(img) == IF img = ImageEntry THEN <<>> ELSE <<<<"s">>>>

NoUnit ==
    [present |-> FALSE, running |-> FALSE, exitCode |-> 0, path |-> <<>>,
     args |-> <<>>, image |-> "", env |-> {}, exec |-> 0,
     cfgCmd |-> <<>>, cfgImage |-> ""]

\* docker.containers.create({"Cmd": cmd, "Image": image, "Env": env, ...}):
\* the inspect document of the new container (what getc returns as
\* _container) reports the first word of the effective command line as
\* Path, the rest as Args, and the image by its id; what it was created
\* with it keeps as Config.Cmd and Config.Image.
DockerCreate(cmd, image, env) ==
    LET eff == ImageEntrypoint(image) \o
               (IF cmd = <<>> THEN ImageCmd(image) ELSE cmd)
    IN  [present |-> TRUE, running |-> FALSE, exitCode |-> 0,
         path |-> Head(eff), args |-> Tail(eff), image |-> ImageId(image),
         env |-> env, exec |-> 0, cfgCmd |-> cmd, cfgImage |-> image]

VARIABLES
    jobs,       \* store: the Job row of each job (NoJob: no such row)
    runs,       \* store: the Run rows of each job, in insertion order
    unit,       \* runtime: the container named after each job
    procUp,     \* the daemon process (its event loop) is running
    now,        \* utcnow(), in ticks
    pc,         \* each coroutine's position
    ret,        \* where the caller continues when the operation returns
    job,        \* each coroutine's `job` row object
    active,     \* up's local `active`
    running,    \* up's local `running`: "None", "True", "False"
    runs0,      \* the number of the job's Run rows when up was entered
    exit,       \* reap's local `exit`
    wake,       \* when the pending asyncio.sleep returns
    launches,   \* executions launched so far, per job
    persisted,  \* executions whose start reached its store update
    script,     \* the operations a driver calls one after the other
    ip          \* how many of them it has called

vars == <<jobs, runs, unit, procUp, now, pc, ret, job, active, running,
          runs0, exit, wake, launches, persisted, script, ip>>

store == <<jobs, runs>>
locals == <<ret, job, active, running, runs0, exit, wake>>
ghost == <<launches, persisted>>
driver == <<script, ip>>

NoJob == [active |-> FALSE, scheduled |-> 0, command |-> <<>>, image |-> ""]

HasRow(j) == jobs[j] # NoJob

Command(j) == IF j = "j1" THEN CmdTrue ELSE CmdArgs

JobRow(j) ==
    [active |-> FALSE, scheduled |-> 0, command |-> Command(j),
     image |-> ImageName]

\* The daemon is not running yet; the store holds the Job rows of `rows`,
\* none of them ever started; the runtime holds no container.
InitWith(rows) ==
    /\ jobs = [j \in Jobs |-> IF j \in rows THEN JobRow(j) ELSE NoJob]
    /\ runs = [j \in Jobs |-> <<>>]
    /\ unit = [j \in Jobs |-> NoUnit]
    /\ procUp = FALSE
    /\ now = 0
    /\ pc = [j \in Jobs |-> "idle"]
    /\ ret = [j \in Jobs |-> "none"]
    /\ job = [j \in Jobs |-> NoJob]
    /\ active = [j \in Jobs |-> FALSE]
    /\ running = [j \in Jobs |-> "None"]
    /\ runs0 = [j \in Jobs |-> 0]
    /\ exit = [j \in Jobs |-> 0]
    /\ wake = [j \in Jobs |-> 0]
    /\ launches = [j \in Jobs |-> 0]
    /\ persisted = [j \in Jobs |-> {}]
    /\ script = [j \in Jobs |-> <<>>]
    /\ ip = [j \in Jobs |-> 0]

Init == InitWith(Jobs)

InitSolo == InitWith({"j1"})

\* ------------------------------------------------------- supervisor
\* run(), main(): the process starts, reads every Job row and schedules
\* one up(x) per row; each begins with its jitter sleep.
Main ==
    /\ ~procUp
    /\ procUp' = TRUE
    /\ pc' = [j \in Jobs |-> IF HasRow(j) THEN "up_entry" ELSE "idle"]
    /\ job' = [j \in Jobs |-> jobs[j]]
    /\ active' = [j \in Jobs |-> jobs[j].active]
    /\ runs0' = [j \in Jobs |-> Len(runs[j])]
    /\ ret' = [j \in Jobs |-> "none"]
    /\ running' = [j \in Jobs |-> "None"]
    /\ exit' = [j \in Jobs |-> 0]
    /\ wake' = [j \in Jobs |-> 0]
    /\ UNCHANGED <<store, unit, now, ghost, driver>>

\* asyncio.gather(*jobs) without return_exceptions: the first exception of
\* any `up` is raised in main(), run_until_complete() raises it, and the
\* event loop stops with the other coroutines still suspended.
MainExit ==
    /\ procUp
    /\ \E j \in Jobs : pc[j] = "failed"
    /\ procUp' = FALSE
    /\ UNCHANGED <<store, unit, now, pc, locals, ghost, driver>>

\* The process is killed.
Crash ==
    /\ procUp
    /\ procUp' = FALSE
    /\ pc' = [j \in Jobs |-> "idle"]
    /\ ret' = [j \in Jobs |-> "none"]
    /\ job' = [j \in Jobs |-> NoJob]
    /\ active' = [j \in Jobs |-> FALSE]
    /\ running' = [j \in Jobs |-> "None"]
    /\ runs0' = [j \in Jobs |-> 0]
    /\ exit' = [j \in Jobs |-> 0]
    /\ wake' = [j \in Jobs |-> 0]
    /\ UNCHANGED <<store, unit, now, ghost, driver>>

\* ------------------------------------------------------------- up
EntryTargetNoWait(act, run) ==
    IF act
    THEN CASE run = "False" -> "reap_getc"
           [] run = "None"  -> "start_getc"
           [] OTHER         -> "up_init"
    ELSE "up_init"

EntryTargetNoReap(act, run) ==
    IF act
    THEN CASE run = "False" -> "up_init"
           [] run = "None"  -> "start_getc"
           [] OTHER         -> "wait_getc"
    ELSE "up_init"

\* The branch `up` takes on entry from `active` and the probed state; with
\* nothing to correct it goes on to init.
EntryTarget(act, run) ==
    IF act
    THEN CASE run = "False" -> "reap_getc"
           [] run = "None"  -> "start_getc"
           [] OTHER         -> "wait_getc"
    ELSE "up_init"

Probe(j) ==
    IF ~unit[j].present THEN "None"
    ELSE IF unit[j].running THEN "True" ELSE "False"

\* The jitter sleep ends; getc; the branch on active and running.
UpProbe(j) ==
    /\ procUp
    /\ pc[j] = "up_entry"
    /\ running' = [running EXCEPT ![j] = Probe(j)]
    /\ pc' = [pc EXCEPT ![j] = EntryTarget(active[j], Probe(j))]
    /\ ret' = [ret EXCEPT ![j] = "up_init"]
    /\ UNCHANGED <<store, unit, procUp, now, job, active, runs0, exit, wake,
                   ghost, driver>>

\* `yield from init(job)`, with the job row `up` was given.
UpInit(j) ==
    /\ procUp
    /\ pc[j] = "up_init"
    /\ pc' = [pc EXCEPT ![j] = "init_getc"]
    /\ ret' = [ret EXCEPT ![j] = "loop_read"]
    /\ UNCHANGED <<store, unit, procUp, now, job, active, running, runs0,
                   exit, wake, ghost, driver>>

\* ------------------------------------------------------------- reap
\* getc, then the check of State.Running; a missing container has no
\* _container attribute.
ReapFailsAbsentOnly(u) == ~u.present

ReapFails(u) == ~u.present \/ u.running

ReapProbe(j) ==
    /\ procUp
    /\ pc[j] = "reap_getc"
    /\ IF ReapFails(unit[j])
       THEN /\ pc' = [pc EXCEPT ![j] = "failed"]
            /\ UNCHANGED exit
       ELSE /\ pc' = [pc EXCEPT ![j] = "reap_update"]
            /\ exit' = [exit EXCEPT ![j] = unit[j].exitCode]
    /\ UNCHANGED <<store, unit, procUp, now, ret, job, active, running, runs0,
                   wake, ghost, driver>>

ActiveAfterReapKept(a) == a

\* What reap's update sets the Job's active to.
ActiveAfterReap(a) == FALSE

\* The update without its where clause.
ReapUpdateAllRows(j) ==
    /\ procUp
    /\ pc[j] = "reap_update"
    /\ jobs' = [k \in Jobs |->
                  IF HasRow(k) THEN [jobs[k] EXCEPT !.active = FALSE]
                  ELSE jobs[k]]
    /\ pc' = [pc EXCEPT ![j] = "reap_insert"]
    /\ UNCHANGED <<runs, unit, procUp, now, locals, ghost, driver>>

\* update(Job).where(name == job.name).values(active=False)
ReapUpdate(j) ==
    /\ procUp
    /\ pc[j] = "reap_update"
    /\ jobs' = [jobs EXCEPT ![j].active = ActiveAfterReap(@)]
    /\ pc' = [pc EXCEPT ![j] = "reap_insert"]
    /\ UNCHANGED <<runs, unit, procUp, now, locals, ghost, driver>>

FailedNever(code) == FALSE

Failed(code) == code # 0

\* insert(Run).values(failed=..., job_id=job.id); reap returns.
ReapInsert(j) ==
    /\ procUp
    /\ pc[j] = "reap_insert"
    /\ runs' = [runs EXCEPT ![j] =
                  Append(@, [failed |-> Failed(exit[j]), exec |-> unit[j].exec])]
    /\ pc' = [pc EXCEPT ![j] = ret[j]]
    /\ exit' = [exit EXCEPT ![j] = 0]
    /\ UNCHANGED <<jobs, unit, procUp, now, ret, job, active, running, runs0,
                   wake, ghost, driver>>

\* ------------------------------------------------------------- wait
WaitProbe(j) ==
    /\ procUp
    /\ pc[j] = "wait_getc"
    /\ pc' = [pc EXCEPT ![j] = IF unit[j].present THEN "wait_wait" ELSE "failed"]
    /\ UNCHANGED <<store, unit, procUp, now, locals, ghost, driver>>

\* A wait that gives up on a container that is still running.
WaitReturnTimeout(j) ==
    /\ procUp
    /\ pc[j] = "wait_wait"
    /\ pc' = [pc EXCEPT ![j] = "reap_getc"]
    /\ UNCHANGED <<store, unit, procUp, now, locals, ghost, driver>>

\* container.wait() returns once the container is not running.
WaitReturn(j) ==
    /\ procUp
    /\ pc[j] = "wait_wait"
    /\ ~unit[j].running
    /\ pc' = [pc EXCEPT ![j] = "reap_getc"]
    /\ UNCHANGED <<store, unit, procUp, now, locals, ghost, driver>>

\* ------------------------------------------------------------- init
\* cfg['Args'] != cmd or cfg['Image'] != job.image
Drifted(u, cmd, image) == u.args # cmd \/ u.image # image

\* An init without its check of a running container.
InitTargetNoRunningCheck(u, cmd, image, r) ==
    IF ~u.present THEN "init_create"
    ELSE IF Drifted(u, cmd, image) THEN "init_delete"
    ELSE r

\* The path init takes: create, raise, delete and create, or return.
InitTarget(u, cmd, image, r) ==
    IF ~u.present THEN "init_create"
    ELSE IF u.running THEN "failed"
    ELSE IF Drifted(u, cmd, image) THEN "init_delete"
    ELSE r

\* getc, the JobEnv select, the running check and the comparison.
InitProbe(j) ==
    /\ procUp
    /\ pc[j] = "init_getc"
    /\ pc' = [pc EXCEPT ![j] =
                InitTarget(unit[j], ShlexSplit(job[j].command), job[j].image,
                           ret[j])]
    /\ UNCHANGED <<store, unit, procUp, now, locals, ghost, driver>>

InitDelete(j) ==
    /\ procUp
    /\ pc[j] = "init_delete"
    /\ unit' = [unit EXCEPT ![j] = NoUnit]
    /\ pc' = [pc EXCEPT ![j] = "init_create"]
    /\ UNCHANGED <<store, procUp, now, locals, ghost, driver>>

InitCreate(j) ==
    /\ procUp
    /\ pc[j] = "init_create"
    /\ unit' = [unit EXCEPT ![j] =
                  DockerCreate(ShlexSplit(job[j].command), job[j].image,
                               FormatEnv(j))]
    /\ pc' = [pc EXCEPT ![j] = ret[j]]
    /\ UNCHANGED <<store, procUp, now, locals, ghost, driver>>

\* ------------------------------------------------------------- start
\* getc and container.start(...): a missing container has no start().
StartLaunch(j) ==
    /\ procUp
    /\ pc[j] = "start_getc"
    /\ IF ~unit[j].present
       THEN /\ pc' = [pc EXCEPT ![j] = "failed"]
            /\ UNCHANGED <<unit, launches>>
       ELSE /\ launches[j] < MaxLaunch
            /\ pc' = [pc EXCEPT ![j] = "start_persist"]
            /\ IF unit[j].running
               THEN UNCHANGED <<unit, launches>>
               ELSE /\ unit' = [unit EXCEPT ![j].running = TRUE,
                                            ![j].exec = launches[j] + 1]
                    /\ launches' = [launches EXCEPT ![j] = @ + 1]
    /\ UNCHANGED <<store, procUp, now, locals, persisted, driver>>

Reschedule(t, j) == t + Interval(j)

\* A start that does not wait: it returns after its store update.
StartPersistNoWait(j) ==
    /\ procUp
    /\ pc[j] = "start_persist"
    /\ jobs' = [jobs EXCEPT ![j].active = TRUE,
                            ![j].scheduled = Reschedule(now, j)]
    /\ persisted' = [persisted EXCEPT ![j] = @ \cup {unit[j].exec}]
    /\ pc' = [pc EXCEPT ![j] = ret[j]]
    /\ UNCHANGED <<runs, unit, procUp, now, locals, launches, driver>>

\* update(Job).values(active=True, scheduled=utcnow() + job.interval)
StartPersist(j) ==
    /\ procUp
    /\ pc[j] = "start_persist"
    /\ jobs' = [jobs EXCEPT ![j].active = TRUE,
                            ![j].scheduled = Reschedule(now, j)]
    /\ persisted' = [persisted EXCEPT ![j] = @ \cup {unit[j].exec}]
    /\ pc' = [pc EXCEPT ![j] = "wait_getc"]
    /\ UNCHANGED <<runs, unit, procUp, now, locals, launches, driver>>

\* ------------------------------------------------- steady-state loop
SecondsNoSleep(t, scheduled) == 0

SecondsUnclamped(t, scheduled) == -(t - scheduled)

\* seconds = -(utcnow() - job.scheduled), clamped at 0.
Seconds(t, scheduled) ==
    LET s == -(t - scheduled) IN IF s < 0 THEN 0 ELSE s

\* The select of the Job row, and the sleep it computes.
LoopRead(j) ==
    /\ procUp
    /\ pc[j] = "loop_read"
    /\ job' = [job EXCEPT ![j] = jobs[j]]
    /\ wake' = [wake EXCEPT ![j] = now + Seconds(now, jobs[j].scheduled)]
    /\ pc' = [pc EXCEPT ![j] = "loop_sleep"]
    /\ UNCHANGED <<store, unit, procUp, now, ret, active, running, runs0,
                   exit, ghost, driver>>

\* A loop body that runs once: up returns when its start returns.
LoopWakeOnce(j) ==
    /\ procUp
    /\ pc[j] = "loop_sleep"
    /\ now >= wake[j]
    /\ pc' = [pc EXCEPT ![j] = "start_getc"]
    /\ ret' = [ret EXCEPT ![j] = "returned"]
    /\ wake' = [wake EXCEPT ![j] = 0]
    /\ UNCHANGED <<store, unit, procUp, now, job, active, running, runs0,
                   exit, ghost, driver>>

\* asyncio.sleep(seconds) returns; start(job) is entered.
LoopWake(j) ==
    /\ procUp
    /\ pc[j] = "loop_sleep"
    /\ now >= wake[j]
    /\ pc' = [pc EXCEPT ![j] = "start_getc"]
    /\ ret' = [ret EXCEPT ![j] = "loop_read"]
    /\ wake' = [wake EXCEPT ![j] = 0]
    /\ UNCHANGED <<store, unit, procUp, now, job, active, running, runs0,
                   exit, ghost, driver>>

\* ------------------------------------------------------ environment
\* The container's process ends with some exit code.
UnitExit(j) ==
    /\ unit[j].present
    /\ unit[j].running
    /\ \E c \in ExitCodes :
          unit' = [unit EXCEPT ![j].running = FALSE, ![j].exitCode = c]
    /\ UNCHANGED <<store, procUp, now, pc, locals, ghost, driver>>

Tick ==
    /\ now < MaxTime
    /\ now' = now + 1
    /\ UNCHANGED <<store, unit, procUp, pc, locals, ghost, driver>>

\* ----------------------------------------------------------- driver
\* A caller of the lifecycle operations one at a time, as a test of them
\* is: it finds the store and the runtime in any state and calls the
\* operations of its script with the job's current row.
Commands == {CmdEmpty, CmdTrue, CmdArgs}
Images == {ImageName, ImageById, ImageEntry}
Scripts ==
    {<<"reap">>, <<"wait">>, <<"init", "init">>, <<"init", "start">>, <<"up">>}

OpRows ==
    [active : BOOLEAN, scheduled : 0..1, command : Commands, image : Images]

\* The containers an earlier init may have created, in each state the
\* runtime may report.
OpUnits(j) ==
    {NoUnit} \cup
    {[DockerCreate(ShlexSplit(c), i, FormatEnv(j))
        EXCEPT !.running = r[1], !.exitCode = r[2]] :
        c \in Commands, i \in Images,
        r \in {<<TRUE, 0>>, <<FALSE, 0>>, <<FALSE, 1>>}}

OpInit ==
    \E row \in OpRows, u \in OpUnits("j1"), sc \in Scripts :
        /\ jobs = [j \in Jobs |-> IF j = "j1" THEN row ELSE NoJob]
        /\ runs = [j \in Jobs |-> <<>>]
        /\ unit = [j \in Jobs |-> IF j = "j1" THEN u ELSE NoUnit]
        /\ procUp = TRUE
        /\ now = 0
        /\ pc = [j \in Jobs |-> IF j = "j1" THEN "call" ELSE "idle"]
        /\ ret = [j \in Jobs |-> "none"]
        /\ job = [j \in Jobs |-> NoJob]
        /\ active = [j \in Jobs |-> FALSE]
        /\ running = [j \in Jobs |-> "None"]
        /\ runs0 = [j \in Jobs |-> 0]
        /\ exit = [j \in Jobs |-> 0]
        /\ wake = [j \in Jobs |-> 0]
        /\ launches = [j \in Jobs |-> 0]
        /\ persisted = [j \in Jobs |-> {}]
        /\ script = [j \in Jobs |-> IF j = "j1" THEN sc ELSE <<>>]
        /\ ip = [j \in Jobs |-> 0]

OpEntry(op) ==
    CASE op = "reap"  -> "reap_getc"
      [] op = "wait"  -> "wait_getc"
      [] op = "init"  -> "init_getc"
      [] op = "start" -> "start_getc"
      [] OTHER        -> "up_entry"

\* The next operation of the script is called with the job's row; the
\* first call notes the row's active flag and the number of Run rows.
Call(j) ==
    /\ pc[j] = "call"
    /\ ip[j] < Len(script[j])
    /\ pc' = [pc EXCEPT ![j] = OpEntry(script[j][ip[j] + 1])]
    /\ ret' = [ret EXCEPT ![j] = "call"]
    /\ ip' = [ip EXCEPT ![j] = @ + 1]
    /\ job' = [job EXCEPT ![j] = jobs[j]]
    /\ active' = [active EXCEPT ![j] = IF ip[j] = 0 THEN jobs[j].active ELSE @]
    /\ runs0' = [runs0 EXCEPT ![j] = IF ip[j] = 0 THEN Len(runs[j]) ELSE @]
    /\ UNCHANGED <<store, unit, procUp, now, running, exit, wake, ghost, script>>

Step(j) ==
    \/ UpProbe(j)
    \/ UpInit(j)
    \/ ReapProbe(j)
    \/ ReapUpdate(j)
    \/ ReapInsert(j)
    \/ WaitProbe(j)
    \/ WaitReturn(j)
    \/ InitProbe(j)
    \/ InitDelete(j)
    \/ InitCreate(j)
    \/ StartLaunch(j)
    \/ StartPersist(j)
    \/ LoopRead(j)
    \/ LoopWake(j)

Next ==
    \/ Main
    \/ MainExit
    \/ Crash
    \/ Tick
    \/ \E j \in Jobs : Step(j)
    \/ \E j \in Jobs : UnitExit(j)

\* The store holds two jobs.
Spec == Init /\ [][Next]_vars

\* The store holds one job.
SpecSolo == InitSolo /\ [][Next]_vars

NextOp ==
    \/ Tick
    \/ \E j \in Jobs : Call(j)
    \/ \E j \in Jobs : Step(j)
    \/ \E j \in Jobs : UnitExit(j)

\* One job, its operations called one at a time from any state.
OpSpec == OpInit /\ [][NextOp]_vars

\* The daemon's first start on a store of never-started jobs; the runtime
\* may still hold a stopped container of a job from an earlier
\* installation.
InitFair ==
    \E old \in SUBSET Jobs :
        /\ jobs = [j \in Jobs |-> JobRow(j)]
        /\ runs = [j \in Jobs |-> <<>>]
        /\ unit = [j \in Jobs |->
                     IF j \in old
                     THEN DockerCreate(ShlexSplit(Command(j)), ImageName,
                                       FormatEnv(j))
                     ELSE NoUnit]
        /\ procUp = FALSE
        /\ now = 0
        /\ pc = [j \in Jobs |-> "idle"]
        /\ ret = [j \in Jobs |-> "none"]
        /\ job = [j \in Jobs |-> NoJob]
        /\ active = [j \in Jobs |-> FALSE]
        /\ running = [j \in Jobs |-> "None"]
        /\ runs0 = [j \in Jobs |-> 0]
        /\ exit = [j \in Jobs |-> 0]
        /\ wake = [j \in Jobs |-> 0]
        /\ launches = [j \in Jobs |-> 0]
        /\ persisted = [j \in Jobs |-> {}]
        /\ script = [j \in Jobs |-> <<>>]
        /\ ip = [j \in Jobs |-> 0]

\* The daemon left alone: nobody kills it, the runtime and the store
\* answer every call.
NextFair ==
    \/ Main
    \/ Tick
    \/ \E j \in Jobs : Step(j)
    \/ \E j \in Jobs : UnitExit(j)

\* The event loop runs every coroutine that is ready, time passes, and
\* every container's process ends.
FairSpec ==
    /\ InitFair
    /\ [][NextFair]_vars
    /\ WF_vars(Main)
    /\ WF_vars(Tick)
    /\ \A j \in Jobs : WF_vars(Step(j))
    /\ \A j \in Jobs : WF_vars(UnitExit(j))

\* =========================================================== claims
Recorded(j, e) == \E i \in 1..Len(runs[j]) : runs[j][i].exec = e

\* The execution the job's container holds (running, or exited and still
\* there to be reaped); 0 when there is none.
Held(j) == IF unit[j].present THEN unit[j].exec ELSE 0

\* C1: no execution is lost across a crash and restart.  An execution's
\* exit code lives in its container only: once the container has been
\* deleted or started again, no later reap can record that execution.  So
\* the claim requires that every execution launched so far either is the
\* one the container still holds or has its Run row.
C1_NoExecutionLost ==
    \A j \in Jobs : \A e \in 1..launches[j] :
        e # Held(j) => Recorded(j, e)

\* C2: the container is never launched a second time unless the previous
\* launch has persisted its `scheduled` and has been reaped into a Run.
C2_NoDuplicateLaunch ==
    [][\A j \in Jobs :
         (launches'[j] # launches[j] /\ launches[j] >= 1)
             => (launches[j] \in persisted[j] /\ Recorded(j, launches[j]))]_vars

\* C3: a fatal error in one job's Reconciler leaves the others able to
\* take their next steps: while another Reconciler is suspended at a step
\* of its cycle, the event loop that resumes it is still running.
C3_OthersKeepRunning ==
    \A j \in Jobs : \A k \in Jobs \ {j} :
        (pc[j] = "failed" /\ pc[k] \notin {"failed", "idle"}) => procUp

\* The coroutine is inside `up`, past its first probe.
InUp(j) ==
    /\ script[j] \in {<<>>, <<"up">>}
    /\ pc[j] \notin {"idle", "call", "up_entry"}

\* C4: entered with active=true and no container, `up` performs Start,
\* which recreates the container and resumes supervision instead of
\* failing.
C4_MissingUnitRestarted ==
    \A j \in Jobs :
        (InUp(j) /\ active[j] /\ running[j] = "None") => pc[j] # "failed"

\* C5: entered with active=true and a running container, `up` goes to
\* wait, and until that execution has been reaped (a Run row has been
\* added since entry) no step launches, creates or deletes the container.
C5_RunningResumesByWait ==
    [][\A j \in Jobs :
         /\ (/\ pc[j] = "up_entry" /\ pc'[j] \notin {"up_entry", "idle"}
             /\ script[j] \in {<<>>, <<"up">>}
             /\ active[j] /\ Probe(j) = "True")
               => pc'[j] = "wait_getc"
         /\ (InUp(j) /\ active[j] /\ running[j] = "True"
               /\ Len(runs[j]) = runs0[j])
               => /\ launches'[j] = launches[j]
                  /\ unit'[j].present = unit[j].present]_vars

C5_Witness ==
    \E j \in Jobs :
        /\ InUp(j) /\ active[j] /\ running[j] = "True"
        /\ pc[j] = "up_init"
        /\ Len(runs[j]) = runs0[j] + 1

\* C6: entered with active=true and an exited container, the entry logic
\* is one reap and nothing else: when `up` reaches its first init exactly
\* one Run row has been added and the Job's active is false.
C6_ExitedReapedOnce ==
    \A j \in Jobs :
        (InUp(j) /\ active[j] /\ running[j] = "False") =>
            /\ ret[j] = "up_init" =>
                   /\ pc[j] \in {"reap_getc", "reap_update", "reap_insert",
                                 "up_init"}
                   /\ Len(runs[j]) \in {runs0[j], runs0[j] + 1}
            /\ pc[j] = "up_init" =>
                   /\ Len(runs[j]) = runs0[j] + 1
                   /\ ~jobs[j].active

C6_Witness ==
    \E j \in Jobs :
        /\ InUp(j) /\ active[j] /\ running[j] = "False"
        /\ pc[j] = "up_init"

\* C7: reap on a container probed running raises, and neither that step
\* nor anything after it inserts a Run or changes the Job row.
C7_ReapOnRunningFails ==
    [][\A j \in Jobs :
         /\ (/\ pc[j] = "reap_getc" /\ pc'[j] # "reap_getc"
             /\ unit[j].present /\ unit[j].running)
               => (pc'[j] = "failed" /\ jobs' = jobs /\ runs' = runs)
         /\ (pc[j] = "failed" /\ script[j] = <<"reap">>)
               => (jobs'[j] = jobs[j] /\ runs'[j] = runs[j])]_vars

C7_Witness ==
    \E j \in Jobs :
        /\ script[j] = <<"reap">>
        /\ pc[j] = "failed"
        /\ unit[j].present /\ unit[j].running
        /\ runs[j] = <<>>

\* The driver's script has run to its end.
Finished(j, sc) == script[j] = sc /\ ip[j] = Len(sc) /\ pc[j] = "call"

\* C8: from active=false, after init and start have returned (start having
\* waited and reaped) there is exactly one new Run row, failed exactly when
\* the container's exit code is not 0, and the Job's active is false.
C8_RunAccounting ==
    \A j \in Jobs :
        (Finished(j, <<"init", "start">>) /\ ~active[j]) =>
            /\ Len(runs[j]) = runs0[j] + 1
            /\ unit[j].exitCode = 0 => ~runs[j][Len(runs[j])].failed
            /\ unit[j].exitCode # 0 => runs[j][Len(runs[j])].failed
            /\ ~jobs[j].active

C8_Witness ==
    \E j \in Jobs :
        /\ Finished(j, <<"init", "start">>) /\ ~active[j]
        /\ unit[j].exitCode = 1
        /\ runs[j] = <<[failed |-> TRUE, exec |-> 1]>>

\* C9: each Start after the first persists a `scheduled` that is at least
\* the `scheduled` the Start before it persisted plus the job's interval.
C9_ScheduledMonotone ==
    [][\A j \in Jobs :
         (persisted[j] # {} /\ persisted'[j] # persisted[j])
             => jobs'[j].scheduled >= jobs[j].scheduled + Interval(j)]_vars

C9_Witness ==
    \E j \in Jobs : Cardinality(persisted[j]) >= 2 /\ ~jobs[j].active

\* C10: the second of two init calls in a row, with the Job and JobEnv
\* unchanged, issues no delete and no create.
C10_InitIdempotent ==
    \A j \in Jobs :
        (script[j] = <<"init", "init">> /\ ip[j] = 2)
            => pc[j] \notin {"init_delete", "init_create"}

\* The container was created with another command or image than the Job
\* row now has.
ConfigDiffers(j) ==
    \/ unit[j].cfgCmd # ShlexSplit(jobs[j].command)
    \/ unit[j].cfgImage # jobs[j].image

\* C11: when init finds a stopped container, it deletes it (and then
\* creates it again) if the container's configured command or image differs
\* from the Job's, and issues neither a delete nor a create if they do not.
C11_RecreateOnDriftOnly ==
    [][\A j \in Jobs :
         (/\ pc[j] = "init_getc" /\ pc'[j] \notin {"init_getc", "idle"}
          /\ unit[j].present /\ ~unit[j].running)
            => /\ ConfigDiffers(j) => pc'[j] = "init_delete"
               /\ ~ConfigDiffers(j) =>
                      pc'[j] \notin {"init_delete", "init_create"}]_vars

\* C12: reap's two effects are persisted together.  Outside a reap that is
\* still executing, an execution whose start persisted active=true and
\* that has no Run row is the latest one and the Job is still active; and
\* the latest execution has a Run row only if active has been cleared.
C12_ReapAllOrNothing ==
    \A j \in Jobs :
        pc[j] # "reap_insert" =>
            /\ \A e \in persisted[j] :
                   ~Recorded(j, e) => (jobs[j].active /\ e = launches[j])
            /\ (launches[j] >= 1 /\ Recorded(j, launches[j]))
                   => ~jobs[j].active

\* C13: the steady-state cycle is init, re-read, sleep, start, repeated:
\* when a start of the cycle returns, the next thing `up` does is init.
C13_InitEveryCycle ==
    [][\A j \in Jobs :
         (/\ pc[j] = "reap_insert" /\ ret[j] = "loop_read"
          /\ pc'[j] \notin {"reap_insert", "idle"})
            => pc'[j] = "init_getc"]_vars

\* The coroutine is inside start: at its own two steps, or in the wait and
\* reap it ends with (called from up's loop or by the driver).
InStart(j) ==
    \/ pc[j] \in {"start_getc", "start_persist"}
    \/ /\ pc[j] \in {"wait_getc", "wait_wait", "reap_getc", "reap_update",
                     "reap_insert"}
       /\ \/ ret[j] = "loop_read"
          \/ ret[j] = "call" /\ script[j][ip[j]] = "start"

\* C14: start launches, then persists active=true and scheduled, then
\* waits; and when it returns the execution it launched has exited, the
\* Job's active is false and that execution has its Run row.
C14_StartBlocksUntilReaped ==
    [][\A j \in Jobs :
         InStart(j) =>
            /\ (pc[j] = "start_getc" /\ pc'[j] = "start_persist")
                 => /\ unit'[j].running
                    /\ jobs'[j] = jobs[j]
                    /\ unit'[j].exec \notin persisted[j]
            /\ (pc[j] = "start_persist" /\ pc'[j] \notin {"start_persist", "idle"})
                 => /\ pc'[j] = "wait_getc"
                    /\ jobs'[j].active
                    /\ jobs'[j].scheduled = now + Interval(j)
            /\ pc'[j] = ret[j]
                 => /\ pc[j] = "reap_insert"
                    /\ ~unit'[j].running
                    /\ ~jobs'[j].active
                    /\ unit[j].exec \in persisted[j]
                    /\ runs'[j] = Append(runs[j],
                                         [failed |-> unit[j].exitCode # 0,
                                          exec |-> unit[j].exec])]_vars

C14_Witness ==
    \E j \in Jobs :
        /\ pc[j] = "loop_read" /\ script[j] = <<"up">>
        /\ launches[j] = 1 /\ Recorded(j, 1)
        /\ ~jobs[j].active

\* C15: the sleep of the cycle lasts max(0, scheduled - now) for the
\* `scheduled` of the row just re-read: never negative, 0 when scheduled
\* has passed, and the start after it is not issued before that scheduled.
C15_SleepClamped ==
    [][\A j \in Jobs :
         /\ (pc[j] = "loop_read" /\ pc'[j] = "loop_sleep")
              => /\ job'[j] = jobs[j]
                 /\ wake'[j] - now >= 0
                 /\ jobs[j].scheduled <= now => wake'[j] - now = 0
                 /\ jobs[j].scheduled > now
                        => wake'[j] - now = jobs[j].scheduled - now
         /\ (pc[j] = "loop_sleep" /\ pc'[j] = "start_getc")
              => now >= job[j].scheduled]_vars

\* The Reconciler asleep until a scheduled time still ahead.
C15_Witness ==
    \E j \in Jobs :
        /\ pc[j] = "loop_sleep"
        /\ wake[j] > now
        /\ job[j].scheduled = wake[j]
        /\ launches[j] >= 1

\* C16: with nothing but the daemon (and kills of it) acting on the store
\* and the runtime, the Job's active is true only from the store update of
\* a start to the store update of the reap of that execution; and it is
\* false while the Reconciler is in init, re-reading the row or asleep in
\* its cycle.
C16_ActiveFlag ==
    \A j \in Jobs :
        /\ jobs[j].active =>
               /\ launches[j] >= 1
               /\ Held(j) = launches[j]
               /\ launches[j] \in persisted[j]
               /\ ~Recorded(j, launches[j])
               /\ pc[j] \notin {"reap_insert"}
        /\ pc[j] \in {"up_init", "init_getc", "init_delete", "init_create",
                      "loop_read", "loop_sleep"}
               => ~jobs[j].active

C16_Witness ==
    \E j \in Jobs :
        /\ pc[j] = "loop_sleep" /\ launches[j] = 1 /\ Recorded(j, 1)
        /\ ~jobs[j].active

\* C17: a step of one job's Reconciler leaves every other job's Job row,
\* Run rows and container as they were.
C17_JobsIsolated ==
    [][\A a \in Jobs : \A b \in Jobs \ {a} :
         (procUp /\ procUp' /\ pc'[a] # pc[a] /\ pc'[b] = pc[b])
            => /\ jobs'[b] = jobs[b]
               /\ runs'[b] = runs[b]
               /\ unit'[b] = unit[b]]_vars

\* Both Reconcilers have run a whole execution, side by side.
C17_Witness ==
    /\ procUp
    /\ \A j \in Jobs : Recorded(j, 1) /\ pc[j] \in {"loop_read", "loop_sleep"}

\* A Reconciler that is not suspended: it has not failed, its sleep is
\* over, the container it waits for has exited.
Runnable(j) ==
    /\ procUp
    /\ pc[j] \notin {"idle", "failed", "call"}
    /\ ~(pc[j] = "loop_sleep" /\ now < wake[j])
    /\ ~(pc[j] = "wait_wait" /\ unit[j].running)
    /\ ~(pc[j] = "start_getc" /\ unit[j].present /\ launches[j] >= MaxLaunch)

\* C18: while a job's container keeps running, its Reconciler stays in
\* wait and reaps nothing, however much time passes; every other
\* Reconciler that is not itself suspended can take its next step.
C18_WaitBlocksOnlyItself ==
    [][\A j \in Jobs :
         (procUp /\ pc[j] = "wait_wait" /\ unit[j].running)
            => /\ (procUp' /\ unit'[j].running)
                    => /\ pc'[j] = "wait_wait"
                       /\ jobs'[j] = jobs[j]
                       /\ runs'[j] = runs[j]
               /\ \A k \in Jobs \ {j} : Runnable(k) => ENABLED Step(k)]_vars

\* One job's first execution is still running at the last instant, its
\* Reconciler in wait, and the other job has run two whole executions.
C18_Witness ==
    /\ procUp
    /\ now = MaxTime
    /\ pc["j1"] = "wait_wait"
    /\ unit["j1"].running
    /\ unit["j1"].exec = 1
    /\ runs["j1"] = <<>>
    /\ Recorded("j2", 2)

\* C19: left alone, a Reconciler never comes to rest: whenever it is not
\* sleeping or waiting it has a next step; every launch is followed by the
\* Run row of that execution; and after each execution is recorded the
\* next launch follows, as long as the clock reaches the scheduled time.
C19_NoTerminalState ==
    /\ [](\A j \in Jobs : Runnable(j) => ENABLED Step(j))
    /\ \A j \in Jobs : \A e \in 1..MaxLaunch :
          (launches[j] = e) ~> Recorded(j, e)
    /\ \A j \in Jobs : \A n \in 0..(MaxLaunch - 1) :
          (/\ launches[j] = n
           /\ n > 0 => Recorded(j, n)
           /\ jobs[j].scheduled <= MaxTime) ~> (launches[j] = n + 1)

\* Every job has been launched as often as the model allows and each of
\* these executions has its Run row.
C19_Witness ==
    /\ procUp
    /\ \A j \in Jobs :
          /\ launches[j] = MaxLaunch
          /\ \A e \in 1..MaxLaunch : Recorded(j, e)

\* The first init of an `up` that was entered with active=false and
\* probed a running container is about to probe the container again.
FirstInitOfInactiveRunning(j) ==
    /\ ~active[j]
    /\ running[j] = "True"
    /\ pc[j] = "init_getc"
    /\ ret[j] = "loop_read"

\* C20 as stated: that first init always raises.
C20_FirstInitAlwaysFails ==
    [][\A j \in Jobs :
         (FirstInitOfInactiveRunning(j) /\ procUp' /\ pc'[j] # pc[j])
            => pc'[j] = "failed"]_vars

\* C20: entered with active=false and a running container, `up` neither
\* waits nor reaps and goes to its first init without touching the store
\* or the container; that init raises, leaving the Job row, the Run rows
\* and the container as they are, if the container is still running when
\* init probes it, and the Reconciler does nothing more. If the container
\* has exited since the entry probe, init goes on as for any stopped
\* container.
C20_InactiveRunningFails ==
    [][\A j \in Jobs :
         /\ (/\ pc[j] = "up_entry" /\ ~active[j] /\ unit[j].running
             /\ procUp' /\ pc'[j] # pc[j])
               => /\ pc'[j] = "up_init"
                  /\ running'[j] = "True"
                  /\ UNCHANGED <<jobs, runs, unit>>
         /\ (/\ pc[j] = "up_init" /\ ~active[j] /\ running[j] = "True"
             /\ procUp' /\ pc'[j] # pc[j])
               => /\ FirstInitOfInactiveRunning(j)'
                  /\ UNCHANGED <<jobs, runs, unit>>
         /\ (FirstInitOfInactiveRunning(j) /\ procUp' /\ pc'[j] # pc[j])
               => /\ UNCHANGED <<jobs, runs, unit>>
                  /\ IF unit[j].running
                     THEN pc'[j] = "failed"
                     ELSE pc'[j] \in {"init_delete", "loop_read"}
         /\ (pc[j] = "failed" /\ procUp /\ procUp')
               => /\ pc'[j] = "failed"
                  /\ jobs'[j] = jobs[j]
                  /\ runs'[j] = runs[j]]_vars

\* The first init has raised on the running container of an inactive job.
C20_Witness ==
    \E j \in Jobs :
        /\ pc[j] = "failed"
        /\ ret[j] = "loop_read"
        /\ ~active[j]
        /\ running[j] = "True"
        /\ unit[j].running
        /\ ~jobs[j].active

====
